---------------------------- MODULE Spec2Model ----------------------------
(***************************************************************************)
(* VORTEX framework (src/Vortex.py): the retry decorator vortex_task and   *)
(* the primary/fallback flow controller vortex_flow.                       *)
(*                                                                         *)
(* One vortex_flow call is a coroutine; it is modelled as a state machine  *)
(* whose steps are the stretches of code between two suspension points     *)
(* (the await of the operation in flight and the backoff sleep of the      *)
(* retry wrapper).  The caller-supplied operations are the environment:    *)
(* every invocation nondeterministically returns a value or raises an      *)
(* error, and the surrounding task may be cancelled at any suspension.     *)
(***************************************************************************)
EXTENDS Integers, Sequences, FiniteSets, TLC

VARIABLES active, cfg, pc, phase, attempt, called, invoked, outcomes,
          delays, caught, result, error, cancelled, log

vars == <<active, cfg, pc, phase, attempt, called, invoked, outcomes,
          delays, caught, result, error, cancelled, log>>

(***************************************************************************)
(* Bounds of the model.                                                    *)
(***************************************************************************)
MaxRetries == 3
MaxMinWait == 2
MaxMaxWait == 4

(***************************************************************************)
(* Program constants: the defaults of vortex_task's parameters and the     *)
(* arguments it passes to tenacity.                                        *)
(***************************************************************************)
DefaultRetries == 3
DefaultMinWait == 1
DefaultMaxWait == 4
Multiplier == 1
ExpBase == 2

Calls == {"A", "B"}
Phases == {"primary", "fallback"}
Kinds == {"none", "plain", "task"}
Values == {"V1", "V2"}
Errors == {"E1", "E2"}
NoResult == "NoResult"
NoError == "NoError"
TypeError == "TypeError"
CancelledError == "CancelledError"

Max(a, b) == IF a >= b THEN a ELSE b
Min(a, b) == IF a <= b THEN a ELSE b
Last(s) == s[Len(s)]

RECURSIVE Pow(_, _)
Pow(b, n) == IF n <= 0 THEN 1 ELSE b * Pow(b, n - 1)

(***************************************************************************)
(* tenacity.stop_after_attempt(retries): stop once the number of attempts  *)
(* made has reached the maximum.  It is consulted only after a failed      *)
(* attempt, so the first attempt is always made.                           *)
(***************************************************************************)
stop_after_attempt_off_by_one(retries, attempt_number) ==
    attempt_number > retries

stop_after_attempt(retries, attempt_number) == attempt_number >= retries

(***************************************************************************)
(* tenacity.wait_exponential as it was before tenacity 8: the exponent is  *)
(* the attempt number itself, so the first wait is already doubled.        *)
(***************************************************************************)
wait_exponential_doubled_first(min_wait, max_wait, attempt_number) ==
    Max(Max(0, min_wait),
        Min(Multiplier * Pow(ExpBase, attempt_number), max_wait))

(***************************************************************************)
(* tenacity.wait_exponential(multiplier=1, min=min_wait, max=max_wait):    *)
(* multiplier * 2^(attempt_number - 1), clamped into [max(0, min), max],   *)
(* the lower clamp being applied last.                                     *)
(***************************************************************************)
wait_exponential(min_wait, max_wait, attempt_number) ==
    Max(Max(0, min_wait),
        Min(Multiplier * Pow(ExpBase, attempt_number - 1), max_wait))

(***************************************************************************)
(* except Exception: asyncio.CancelledError derives from BaseException,    *)
(* every error an operation raises here derives from Exception.  The same  *)
(* test is tenacity's default retry predicate retry_if_exception_type().   *)
(***************************************************************************)
IsException(exc) == exc # CancelledError

(***************************************************************************)
(* retry(...) without a retry argument: tenacity's default predicate       *)
(* retry_if_exception_type() retries on every Exception, whatever its      *)
(* kind, and on nothing else.                                              *)
(***************************************************************************)
retry_if_exception_type_selective(exc) == exc = "E1"

retry_if_exception_type(exc) == IsException(exc)

(***************************************************************************)
(* reraise=True: when the attempts are exhausted the wrapper raises the    *)
(* exception of the last attempt itself.                                   *)
(***************************************************************************)
reraise_first(outs) == outs[1][2]

reraise(outs) == Last(outs)[2]

(***************************************************************************)
(* Log events of vortex_flow.  ctx tells whether the message carries the   *)
(* context label, err the error it reports.                                *)
(***************************************************************************)
LogExecuting == [ev |-> "executing_vector", ctx |-> TRUE, err |-> NoError]
LogInstability(exc) == [ev |-> "vector_instability", ctx |-> TRUE, err |-> exc]
LogEngaging == [ev |-> "engaging_fallback", ctx |-> FALSE, err |-> NoError]
LogStabilized == [ev |-> "stabilized_via_fallback", ctx |-> FALSE, err |-> NoError]
LogFallbackFailed(exc) == [ev |-> "fallback_also_failed", ctx |-> FALSE, err |-> exc]
LogNoFallback == [ev |-> "no_fallback_defined", ctx |-> FALSE, err |-> NoError]

KindOf(c, ph) == IF ph = "primary" THEN cfg[c].primary ELSE cfg[c].fallback
RetriesOf(c, ph) == IF ph = "primary" THEN cfg[c].retries ELSE cfg[c].fb_retries

(***************************************************************************)
(* The configurations a call can be made with.  A field that the chosen    *)
(* kind of operation does not read keeps the default of vortex_task.       *)
(***************************************************************************)
RetriesOfKind(k) == IF k = "task" THEN -1 .. MaxRetries ELSE {DefaultRetries}

Configs ==
    { [primary |-> p, retries |-> r, fallback |-> f, fb_retries |-> fr,
       min_wait |-> mn, max_wait |-> mx] :
         p \in Kinds, r \in -1 .. MaxRetries,
         f \in Kinds, fr \in -1 .. MaxRetries,
         mn \in 0 .. MaxMinWait, mx \in 0 .. MaxMaxWait }

ValidConfig(k) ==
    /\ k.retries \in RetriesOfKind(k.primary)
    /\ k.fb_retries \in RetriesOfKind(k.fallback)
    /\ (k.primary # "task" /\ k.fallback # "task")
          => (k.min_wait = DefaultMinWait /\ k.max_wait = DefaultMaxWait)

DefaultConfig ==
    [primary |-> "plain", retries |-> DefaultRetries,
     fallback |-> "none", fb_retries |-> DefaultRetries,
     min_wait |-> DefaultMinWait, max_wait |-> DefaultMaxWait]

ValidConfigs == {k \in Configs : ValidConfig(k)}

ConfigsFor(c, act, ks) == IF c \in act THEN ks ELSE {DefaultConfig}

InitConfigs(act, ks) ==
    /\ active = act
    /\ \E ka \in ConfigsFor("A", act, ks), kb \in ConfigsFor("B", act, ks) :
          cfg = ("A" :> ka) @@ ("B" :> kb)
    /\ pc = [c \in Calls |-> IF c \in act THEN "start" ELSE "idle"]
    /\ phase = [c \in Calls |-> "primary"]
    /\ attempt = [c \in Calls |-> 0]
    /\ called = [c \in Calls |-> [primary |-> 0, fallback |-> 0]]
    /\ invoked = [c \in Calls |-> [primary |-> 0, fallback |-> 0]]
    /\ outcomes = [c \in Calls |-> [primary |-> <<>>, fallback |-> <<>>]]
    /\ delays = [c \in Calls |-> [primary |-> <<>>, fallback |-> <<>>]]
    /\ caught = [c \in Calls |-> [primary |-> NoError, fallback |-> NoError]]
    /\ result = [c \in Calls |-> NoResult]
    /\ error = [c \in Calls |-> NoError]
    /\ cancelled = [c \in Calls |-> FALSE]
    /\ log = [c \in Calls |-> <<>>]

InitCalls(act) == InitConfigs(act, ValidConfigs)

Init == InitCalls({"A"})

(***************************************************************************)
(* await primary() / await fallback(): the operation is invoked and the    *)
(* call is suspended on it.  A retry-wrapped operation starts with         *)
(* attempt number 1.  called counts the calls vortex_flow itself makes,    *)
(* invoked the invocations of the operation, the retry wrapper's included. *)
(***************************************************************************)
Invoke(c, ph, lg) ==
    /\ pc' = [pc EXCEPT ![c] = "inflight"]
    /\ phase' = [phase EXCEPT ![c] = ph]
    /\ attempt' = [attempt EXCEPT ![c] = 1]
    /\ called' = [called EXCEPT ![c][ph] = @ + 1]
    /\ invoked' = [invoked EXCEPT ![c][ph] = @ + 1]
    /\ log' = [log EXCEPT ![c] = lg]
    /\ UNCHANGED <<result, error>>

(***************************************************************************)
(* An exception leaves vortex_flow.                                        *)
(***************************************************************************)
Raise(c, exc, lg, final) ==
    /\ pc' = [pc EXCEPT ![c] = final]
    /\ error' = [error EXCEPT ![c] = exc]
    /\ log' = [log EXCEPT ![c] = lg]
    /\ UNCHANGED <<phase, attempt, called, invoked, result>>

(***************************************************************************)
(* return: vortex_flow ends with a value.                                  *)
(***************************************************************************)
Return(c, v, lg) ==
    /\ pc' = [pc EXCEPT ![c] = "done"]
    /\ result' = [result EXCEPT ![c] = v]
    /\ log' = [log EXCEPT ![c] = lg]
    /\ UNCHANGED <<phase, attempt, called, invoked, error>>

(***************************************************************************)
(* except Exception as e (lines 66-81): the fallback is engaged when there *)
(* is one, otherwise e is raised again.                                    *)
(***************************************************************************)
PrimaryFailed_own_error(c, exc, lg) ==
    /\ caught' = [caught EXCEPT ![c].primary = exc]
    /\ IF cfg[c].fallback # "none"
         THEN Invoke(c, "fallback",
                     lg \o <<LogInstability(exc), LogEngaging>>)
         ELSE Raise(c, "NoFallbackError",
                    lg \o <<LogInstability(exc), LogNoFallback>>, "failed")

PrimaryFailed_retry(c, exc, lg) ==
    /\ caught' = [caught EXCEPT ![c].primary = exc]
    /\ IF called[c].primary < 2 /\ cfg[c].primary # "none"
         THEN Invoke(c, "primary", lg \o <<LogInstability(exc)>>)
         ELSE IF cfg[c].fallback # "none"
         THEN Invoke(c, "fallback",
                     lg \o <<LogInstability(exc), LogEngaging>>)
         ELSE Raise(c, exc,
                    lg \o <<LogInstability(exc), LogNoFallback>>, "failed")

PrimaryFailed(c, exc, lg) ==
    /\ caught' = [caught EXCEPT ![c].primary = exc]
    /\ IF cfg[c].fallback # "none"
         THEN Invoke(c, "fallback",
                     lg \o <<LogInstability(exc), LogEngaging>>)
         ELSE Raise(c, exc,
                    lg \o <<LogInstability(exc), LogNoFallback>>, "failed")

(***************************************************************************)
(* except Exception as fb_e (lines 75-77): the fallback's error is raised. *)
(***************************************************************************)
FallbackFailed_primary_error(c, exc, lg) ==
    /\ caught' = [caught EXCEPT ![c].fallback = exc]
    /\ Raise(c, caught[c].primary, lg \o <<LogFallbackFailed(exc)>>, "failed")

FallbackFailed_back_to_primary(c, exc, lg) ==
    /\ caught' = [caught EXCEPT ![c].fallback = exc]
    /\ IF called[c].primary < 2 /\ cfg[c].primary # "none"
         THEN Invoke(c, "primary", lg \o <<LogFallbackFailed(exc)>>)
         ELSE Raise(c, exc, lg \o <<LogFallbackFailed(exc)>>, "failed")

FallbackFailed(c, exc, lg) ==
    /\ caught' = [caught EXCEPT ![c].fallback = exc]
    /\ Raise(c, exc, lg \o <<LogFallbackFailed(exc)>>, "failed")

(***************************************************************************)
(* An exception leaves the awaited operation and reaches the try blocks    *)
(* of vortex_flow.  What is not an Exception passes through both handlers. *)
(***************************************************************************)
Propagate(c, exc, lg) ==
    IF IsException(exc)
      THEN IF phase[c] = "primary"
             THEN PrimaryFailed(c, exc, lg)
             ELSE FallbackFailed(c, exc, lg)
      ELSE /\ Raise(c, exc, lg, "cancelled")
           /\ UNCHANGED caught

(***************************************************************************)
(* The awaited operation returned v (lines 64 and 72-74).                  *)
(***************************************************************************)
Returned_and_fallback(c, v, lg) ==
    IF phase[c] = "primary" /\ cfg[c].fallback # "none"
      THEN Invoke(c, "fallback", lg \o <<LogEngaging>>)
      ELSE Return(c, v, lg)

Returned_none(c, v, lg) ==
    IF phase[c] = "primary"
      THEN Return(c, v, lg)
      ELSE Return(c, "None", lg \o <<LogStabilized>>)

Returned(c, v, lg) ==
    IF phase[c] = "primary"
      THEN Return(c, v, lg)
      ELSE Return(c, v, lg \o <<LogStabilized>>)

(***************************************************************************)
(* vortex_flow is called: it logs the context and calls primary().  A      *)
(* primary that is not callable makes the call expression raise TypeError  *)
(* inside the try block.                                                   *)
(***************************************************************************)
FlowStart(c) ==
    /\ pc[c] = "start"
    /\ LET lg == Append(log[c], LogExecuting)
       IN IF cfg[c].primary = "none"
            THEN Propagate(c, TypeError, lg)
            ELSE Invoke(c, "primary", lg) /\ UNCHANGED caught
    /\ UNCHANGED <<active, cfg, outcomes, delays, cancelled>>

(***************************************************************************)
(* The operation in flight returned v: the retry wrapper, if any, returns  *)
(* it at once.                                                             *)
(***************************************************************************)
AttemptReturned(c, v) ==
    /\ outcomes' = [outcomes EXCEPT ![c][phase[c]] = Append(@, <<"ok", v>>)]
    /\ Returned(c, v, log[c])
    /\ UNCHANGED <<delays, caught>>

(***************************************************************************)
(* The operation in flight returns v.                                      *)
(***************************************************************************)
OpReturn(c, v) ==
    /\ pc[c] = "inflight"
    /\ AttemptReturned(c, v)
    /\ UNCHANGED <<active, cfg, cancelled>>

(***************************************************************************)
(* tenacity's RetryCallState.prepare_for_next_attempt(): the attempt       *)
(* number of the call is incremented when a retry has been decided, before *)
(* the backoff sleep.                                                      *)
(***************************************************************************)
prepare_for_next_attempt_shared(c) ==
    attempt' = [x \in Calls |-> attempt[x] + 1]

prepare_for_next_attempt_not_counted(c) ==
    attempt' = attempt

prepare_for_next_attempt(c) ==
    attempt' = [attempt EXCEPT ![c] = @ + 1]

(***************************************************************************)
(* A retry wrapper that waits out a backoff delay after every failed       *)
(* attempt, the last one included, before it gives up.                     *)
(***************************************************************************)
AttemptFailed_wait_after_last(c, exc) ==
    LET ph == phase[c]
        outs == Append(outcomes[c][ph], <<"err", exc>>)
    IN /\ outcomes' = [outcomes EXCEPT ![c][ph] = outs]
       /\ IF KindOf(c, ph) # "task"
            THEN /\ Propagate(c, exc, log[c])
                 /\ UNCHANGED delays
            ELSE IF ~retry_if_exception_type(exc)
            THEN /\ Propagate(c, exc, log[c])
                 /\ UNCHANGED delays
            ELSE IF stop_after_attempt(RetriesOf(c, ph), attempt[c])
            THEN /\ Propagate(c, reraise(outs), log[c])
                 /\ delays' = [delays EXCEPT ![c][ph] =
                       Append(@, wait_exponential(cfg[c].min_wait,
                                    cfg[c].max_wait, attempt[c]))]
            ELSE /\ pc' = [pc EXCEPT ![c] = "sleep"]
                 /\ delays' = [delays EXCEPT ![c][ph] =
                       Append(@, wait_exponential(cfg[c].min_wait,
                                    cfg[c].max_wait, attempt[c]))]
                 /\ prepare_for_next_attempt(c)
                 /\ UNCHANGED <<phase, called, invoked, caught, result,
                                error, log>>

(***************************************************************************)
(* An exception leaves the operation in flight.  The retry wrapper records *)
(* it as the attempt's outcome; it gives up when the retry predicate       *)
(* rejects the exception or the attempts are exhausted; otherwise it       *)
(* computes the backoff delay from the number of the failed attempt,       *)
(* counts the next attempt and sleeps.  An unwrapped operation's exception *)
(* reaches vortex_flow directly.                                           *)
(***************************************************************************)
AttemptFailed(c, exc) ==
    LET ph == phase[c]
        outs == Append(outcomes[c][ph], <<"err", exc>>)
    IN /\ outcomes' = [outcomes EXCEPT ![c][ph] = outs]
       /\ IF KindOf(c, ph) # "task"
            THEN /\ Propagate(c, exc, log[c])
                 /\ UNCHANGED delays
            ELSE IF ~retry_if_exception_type(exc)
            THEN /\ Propagate(c, exc, log[c])
                 /\ UNCHANGED delays
            ELSE IF stop_after_attempt(RetriesOf(c, ph), attempt[c])
            THEN /\ Propagate(c, reraise(outs), log[c])
                 /\ UNCHANGED delays
            ELSE /\ pc' = [pc EXCEPT ![c] = "sleep"]
                 /\ delays' = [delays EXCEPT ![c][ph] =
                       Append(@, wait_exponential(cfg[c].min_wait,
                                    cfg[c].max_wait, attempt[c]))]
                 /\ prepare_for_next_attempt(c)
                 /\ UNCHANGED <<phase, called, invoked, caught, result,
                                error, log>>

(***************************************************************************)
(* The operation in flight raises exc.  exc may be a CancelledError: the   *)
(* one thrown into the operation, let out once the cleanup it awaited is   *)
(* done, or one the operation raises without the task being cancelled (a   *)
(* future it awaits was cancelled, or it raises it itself).                *)
(***************************************************************************)
OpRaise(c, exc) ==
    /\ pc[c] = "inflight"
    /\ AttemptFailed(c, exc)
    /\ UNCHANGED <<active, cfg, cancelled>>

(***************************************************************************)
(* The backoff sleep ends: the attempt counted before the sleep is made.   *)
(***************************************************************************)
Wake(c) ==
    /\ pc[c] = "sleep"
    /\ pc' = [pc EXCEPT ![c] = "inflight"]
    /\ invoked' = [invoked EXCEPT ![c][phase[c]] = @ + 1]
    /\ UNCHANGED <<active, cfg, phase, attempt, called, outcomes, delays,
                   caught, result, error, cancelled, log>>

(***************************************************************************)
(* The surrounding task is cancelled: CancelledError is thrown into the    *)
(* call at the point it is waiting at.  A call that has not made its first *)
(* step ends with it before anything is logged or invoked.  In the backoff *)
(* sleep it leaves asyncio.sleep and the retry wrapper directly.  Thrown   *)
(* into an operation in flight, what happens next is up to the operation:  *)
(* r is its reaction, the CancelledError itself, an error of its own       *)
(* raised while it handles the cancellation, a value it returns all the    *)
(* same, or Suspended when its handling of the cancellation awaits (a      *)
(* cleanup in finally or async with): the operation then stays in flight   *)
(* and returns or raises in a later step.                                  *)
(***************************************************************************)
Suspended == "Suspended"

Reactions == {CancelledError, Suspended} \cup Errors \cup Values

Cancel(c, r) ==
    /\ pc[c] \in {"start", "inflight", "sleep"}
    /\ cancelled' = [cancelled EXCEPT ![c] = TRUE]
    /\ IF pc[c] = "inflight"
         THEN IF r = Suspended
                THEN UNCHANGED <<pc, phase, attempt, called, invoked,
                                 outcomes, delays, caught, result, error, log>>
                ELSE IF r \in Values
                THEN AttemptReturned(c, r)
                ELSE AttemptFailed(c, r)
         ELSE /\ r = CancelledError
              /\ Propagate(c, CancelledError, log[c])
              /\ UNCHANGED <<outcomes, delays>>
    /\ UNCHANGED <<active, cfg>>

Next ==
    \/ \E c \in active : FlowStart(c)
    \/ \E c \in active, v \in Values : OpReturn(c, v)
    \/ \E c \in active, exc \in Errors \cup {CancelledError} : OpRaise(c, exc)
    \/ \E c \in active : Wake(c)
    \/ \E c \in active, r \in Reactions : Cancel(c, r)

Spec == Init /\ [][Next]_vars

(***************************************************************************)
(* Two concurrent calls of vortex_flow on one event loop: their steps      *)
(* interleave at the suspension points.  Both primaries are retry-wrapped. *)
(***************************************************************************)
ConcRetries == 2

ConcConfigs ==
    {k \in ValidConfigs :
        /\ k.primary = "task" /\ k.retries \in 1 .. ConcRetries
        /\ k.fallback \in {"none", "plain"}
        /\ k.min_wait = DefaultMinWait /\ k.max_wait = DefaultMaxWait}

InitConc == InitConfigs(Calls, ConcConfigs)

SpecConc == InitConc /\ [][Next]_vars

(***************************************************************************)
(* One call whose operations all terminate, returning a value or raising  *)
(* an Exception, and whose task is never cancelled: no CancelledError is   *)
(* thrown into the call or raised by an operation.  The event loop resumes *)
(* a coroutine whose awaited operation or sleep has completed, hence the   *)
(* weak fairness of the steps.                                             *)
(***************************************************************************)
LiveConfigs ==
    {k \in ValidConfigs :
        k.min_wait = DefaultMinWait /\ k.max_wait = DefaultMaxWait}

InitLive == InitConfigs({"A"}, LiveConfigs)

NextNoCancel ==
    \/ \E c \in active : FlowStart(c)
    \/ \E c \in active, v \in Values : OpReturn(c, v)
    \/ \E c \in active, exc \in Errors : OpRaise(c, exc)
    \/ \E c \in active : Wake(c)

SpecLive == InitLive /\ [][NextNoCancel]_vars /\ WF_vars(NextNoCancel)

TypeOK ==
    /\ active \subseteq Calls
    /\ pc \in [Calls -> {"idle", "start", "inflight", "sleep", "done",
                         "failed", "cancelled"}]
    /\ phase \in [Calls -> Phases]
    /\ \A c \in Calls :
         /\ attempt[c] \in 0 .. MaxRetries + 1
         /\ result[c] \in Values \cup {NoResult}
         /\ error[c] \in Errors \cup {NoError, TypeError, CancelledError}
         /\ cancelled[c] \in BOOLEAN

(***************************************************************************)
(* Properties.                                                             *)
(***************************************************************************)
(***************************************************************************)
(* A call has started once vortex_flow has made its first step; a call     *)
(* whose task was cancelled before that has run none of its code.          *)
(***************************************************************************)
Started(c) ==
    /\ pc[c] # "start"
    /\ ~(pc[c] = "cancelled" /\ invoked[c].primary + invoked[c].fallback = 0)

AllErr(outs) == \A i \in 1 .. Len(outs) : outs[i][1] = "err"
EndsOk(outs) == Len(outs) > 0 /\ Last(outs)[1] = "ok"
Wrapped(c, ph) == KindOf(c, ph) = "task" /\ RetriesOf(c, ph) >= 1

\* C1: a retry-wrapped operation (retries = N >= 1) whose every attempt
\* fails has been invoked exactly N times when its error reaches the caller,
\* and that error is the error of the Nth attempt itself.
C1_ExhaustedAfterNAttempts ==
    \A c \in active, ph \in Phases :
        (Wrapped(c, ph) /\ caught[c][ph] # NoError) =>
            /\ invoked[c][ph] = RetriesOf(c, ph)
            /\ Len(outcomes[c][ph]) = RetriesOf(c, ph)
            /\ AllErr(outcomes[c][ph])
            /\ caught[c][ph] = outcomes[c][ph][RetriesOf(c, ph)][2]

C1_Witness ==
    \E c \in active :
        /\ cfg[c].primary = "task" /\ cfg[c].retries = 3
        /\ caught[c].primary # NoError
        /\ outcomes[c].primary[1][2] # outcomes[c].primary[3][2]

\* C2: a retry-wrapped operation (retries = N >= 1) that succeeds on attempt
\* K after failing on attempts 1..K-1 has K <= N, has been invoked exactly K
\* times, the call returns attempt K's result, and no further invocation of
\* it is ever made.
C2_SucceedsOnAttemptK_State ==
    \A c \in active, ph \in Phases :
        (Wrapped(c, ph) /\ EndsOk(outcomes[c][ph])) =>
            LET K == Len(outcomes[c][ph])
            IN /\ K <= RetriesOf(c, ph)
               /\ invoked[c][ph] = K
               /\ AllErr(SubSeq(outcomes[c][ph], 1, K - 1))
               /\ pc[c] = "done" /\ phase[c] = ph
               /\ result[c] = outcomes[c][ph][K][2]

C2_SucceedsOnAttemptK_Step ==
    \A c \in active, ph \in Phases :
        (Wrapped(c, ph) /\ EndsOk(outcomes[c][ph])) =>
            /\ invoked'[c][ph] = invoked[c][ph]
            /\ outcomes'[c][ph] = outcomes[c][ph]

C2_SucceedsOnAttemptK ==
    /\ []C2_SucceedsOnAttemptK_State
    /\ [][C2_SucceedsOnAttemptK_Step]_vars

C2_Witness ==
    \E c \in active :
        /\ cfg[c].primary = "task" /\ cfg[c].retries = 3
        /\ pc[c] = "done" /\ phase[c] = "primary"
        /\ invoked[c].primary = 2
        /\ outcomes[c].primary[1][1] = "err"

\* C3: when the primary succeeds the fallback is never invoked and the call
\* returns the primary's result, with or without a fallback and whether or
\* not the primary is retry-wrapped.
C3_PrimarySuccessSkipsFallback ==
    \A c \in active :
        EndsOk(outcomes[c].primary) =>
            /\ invoked[c].fallback = 0
            /\ pc[c] = "done"
            /\ result[c] = Last(outcomes[c].primary)[2]
            /\ error[c] = NoError

C3_Witness ==
    \E c \in active :
        /\ cfg[c].primary = "task" /\ cfg[c].fallback = "plain"
        /\ EndsOk(outcomes[c].primary)
        /\ Len(outcomes[c].primary) >= 2
        /\ pc[c] = "done"

\* C4: when the primary fails and the fallback fails too, the call has
\* failed with the fallback's error and has returned no value.
C4_BothFailRaisesFallbackError ==
    \A c \in active :
        (caught[c].primary # NoError /\ caught[c].fallback # NoError) =>
            /\ pc[c] = "failed"
            /\ error[c] = caught[c].fallback
            /\ error[c] = Last(outcomes[c].fallback)[2]
            /\ result[c] = NoResult

C4_Witness ==
    \E c \in active :
        /\ caught[c].primary \in Errors
        /\ caught[c].fallback \in Errors
        /\ caught[c].primary # caught[c].fallback
        /\ pc[c] = "failed"

\* C5: when the primary fails and no fallback is configured, the call has
\* failed with the primary's error unchanged.
C5_NoFallbackRaisesPrimaryError ==
    \A c \in active :
        (cfg[c].fallback = "none" /\ caught[c].primary # NoError) =>
            /\ pc[c] = "failed"
            /\ error[c] = caught[c].primary
            /\ cfg[c].primary # "none" =>
                  error[c] = Last(outcomes[c].primary)[2]
            /\ invoked[c].fallback = 0
            /\ result[c] = NoResult

C5_Witness ==
    \E c \in active :
        /\ cfg[c].fallback = "none" /\ cfg[c].primary = "plain"
        /\ pc[c] = "failed"
        /\ error[c] \in Errors

\* C6: when the primary fails and the fallback succeeds, the call returns
\* the fallback's result and the caller observes no error.
C6_FallbackSuccessReturnsItsResult ==
    \A c \in active :
        (caught[c].primary # NoError /\ EndsOk(outcomes[c].fallback)) =>
            /\ pc[c] = "done"
            /\ result[c] = Last(outcomes[c].fallback)[2]
            /\ error[c] = NoError

C6_Witness ==
    \E c \in active :
        /\ caught[c].primary \in Errors
        /\ EndsOk(outcomes[c].fallback)
        /\ pc[c] = "done"

\* C7: with an always-failing primary wrapped for N >= 1 attempts and a
\* fallback that returns a value, the primary is invoked exactly N times,
\* only then the fallback is invoked, exactly once, and the call returns the
\* fallback's value.
C7_RetryThenFallback_State ==
    \A c \in active :
        (/\ Wrapped(c, "primary")
         /\ phase[c] = "fallback"
         /\ Len(outcomes[c].fallback) = 1
         /\ EndsOk(outcomes[c].fallback)) =>
            /\ invoked[c].primary = cfg[c].retries
            /\ AllErr(outcomes[c].primary)
            /\ invoked[c].fallback = 1
            /\ pc[c] = "done"
            /\ result[c] = outcomes[c].fallback[1][2]

C7_RetryThenFallback_Step ==
    \A c \in active :
        (Wrapped(c, "primary") /\ invoked'[c].fallback # invoked[c].fallback)
            => /\ invoked[c].primary = cfg[c].retries
               /\ invoked'[c].primary = cfg[c].retries

C7_RetryThenFallback ==
    /\ []C7_RetryThenFallback_State
    /\ [][C7_RetryThenFallback_Step]_vars

C7_Witness ==
    \E c \in active :
        /\ cfg[c].primary = "task" /\ cfg[c].retries = 3
        /\ cfg[c].fallback = "plain"
        /\ invoked[c].primary = 3 /\ invoked[c].fallback = 1
        /\ pc[c] = "done"

\* C8: once the surrounding task has been cancelled, while an operation is
\* in flight or during a backoff wait, the call ends with the cancellation:
\* until the cancelled operation comes out the call has no result and no
\* error, nothing else ends it than the CancelledError, and no operation is
\* invoked by or after the cancellation, so a cancellation during the
\* primary leaves the fallback uninvoked.
C8_CancellationWins_State ==
    \A c \in active :
        cancelled[c] =>
            /\ pc[c] \in {"inflight", "cancelled"}
            /\ error[c] = IF pc[c] = "cancelled" THEN CancelledError
                                                 ELSE NoError
            /\ result[c] = NoResult
            /\ phase[c] = "primary" => invoked[c].fallback = 0

C8_CancellationWins_Step ==
    \A c \in active :
        cancelled'[c] =>
            /\ invoked'[c] = invoked[c]
            /\ phase'[c] = phase[c]
            /\ log'[c] = log[c]

C8_CancellationWins ==
    /\ []C8_CancellationWins_State
    /\ [][C8_CancellationWins_Step]_vars

\* C9: a retry wrapper configured with fewer than one attempt raises a
\* configuration error before the wrapped operation is invoked, so the
\* operation's invocation count stays 0.
C9_InvalidRetriesNeverInvokes ==
    \A c \in active, ph \in Phases :
        (KindOf(c, ph) = "task" /\ RetriesOf(c, ph) < 1) =>
            invoked[c][ph] = 0

\* C10: when the primary is not a callable operation the call fails fast:
\* the fallback is not invoked and the error does not go through the
\* primary-failure handler.
C10_MissingPrimaryFailsFast ==
    \A c \in active :
        cfg[c].primary = "none" =>
            /\ invoked[c].fallback = 0
            /\ caught[c].primary = NoError

\* C11 (as stated): for 0 <= min_delay <= max_delay the backoff wait after
\* failed attempt a equals min(max_delay, min_delay * 2^(a-1)).
C11_DelayIsScaledBase ==
    \A c \in active, ph \in Phases :
        cfg[c].min_wait <= cfg[c].max_wait =>
            \A a \in 1 .. Len(delays[c][ph]) :
                delays[c][ph][a] =
                    Min(cfg[c].max_wait, cfg[c].min_wait * Pow(2, a - 1))

\* C11 (amended): for 0 <= min_delay <= max_delay the backoff wait after
\* failed attempt a equals 2^(a-1) clamped into [min_delay, max_delay]:
\* min_delay is a floor of the wait, not the base that is doubled.
ClampedPowerOfTwo(lo, hi, a) ==
    IF Pow(2, a - 1) < lo THEN lo
    ELSE IF Pow(2, a - 1) > hi THEN hi
    ELSE Pow(2, a - 1)

C11_DelayIsClampedPowerOfTwo ==
    \A c \in active, ph \in Phases :
        cfg[c].min_wait <= cfg[c].max_wait =>
            \A a \in 1 .. Len(delays[c][ph]) :
                delays[c][ph][a] =
                    ClampedPowerOfTwo(cfg[c].min_wait, cfg[c].max_wait, a)

C11_Witness ==
    \E c \in active :
        /\ cfg[c].primary = "task"
        /\ cfg[c].min_wait = 2 /\ cfg[c].max_wait = 4
        /\ delays[c].primary = <<2, 2>>

\* C12: for every retry configuration vortex_task accepts, every backoff
\* delay lies within [min_delay, max_delay] and the delays of a run are
\* non-decreasing.
C12_DelayWithinBoundsAndMonotone ==
    \A c \in active, ph \in Phases :
        \A a \in 1 .. Len(delays[c][ph]) :
            /\ cfg[c].min_wait <= delays[c][ph][a]
            /\ delays[c][ph][a] <= cfg[c].max_wait
            /\ a > 1 => delays[c][ph][a - 1] <= delays[c][ph][a]

\* C13: the flow controller performs no retries itself: once started it has
\* called primary() exactly once and fallback() at most once, whatever the
\* outcomes; an operation is invoked more often than the controller called
\* it only when the caller wrapped it with vortex_task.
C13_ControllerCallsOnce ==
    \A c \in active :
        /\ (Started(c) /\ cfg[c].primary # "none")
              => called[c].primary = 1
        /\ called[c].fallback <= 1
        /\ \A ph \in Phases :
              /\ called[c][ph] <= invoked[c][ph]
              /\ KindOf(c, ph) # "task" => invoked[c][ph] = called[c][ph]

C13_Witness ==
    \E c \in active :
        /\ cfg[c].primary = "task" /\ cfg[c].fallback = "task"
        /\ pc[c] = "failed"
        /\ called[c].primary = 1 /\ invoked[c].primary = 3
        /\ called[c].fallback = 1 /\ invoked[c].fallback = 2

\* C14: the flow is linear.  The fallback phase is entered only from the
\* primary phase, when the primary has failed with all the attempts of its
\* retry wrapper made and a fallback is present; once the fallback has been
\* invoked the primary is never invoked again; DONE and FAILED are terminal;
\* FAILED carries the one error of the operation that ran last and DONE
\* carries none.
Attempts(n) == IF n < 1 THEN 1 ELSE n

CallState(c) ==
    <<pc[c], phase[c], attempt[c], called[c], invoked[c], outcomes[c],
      delays[c], caught[c], result[c], error[c], cancelled[c], log[c]>>

C14_Linear_State ==
    \A c \in active :
        /\ pc[c] = "done" => (error[c] = NoError /\ result[c] # NoResult)
        /\ pc[c] = "failed" =>
              /\ result[c] = NoResult
              /\ error[c] = caught[c][phase[c]]
              /\ error[c] # NoError
              /\ Len(outcomes[c][phase[c]]) > 0 =>
                    error[c] = Last(outcomes[c][phase[c]])[2]
              /\ cfg[c].fallback # "none" => phase[c] = "fallback"
        /\ phase[c] = "fallback" =>
              /\ cfg[c].fallback # "none"
              /\ caught[c].primary # NoError
              /\ AllErr(outcomes[c].primary)
              /\ cfg[c].primary = "task" =>
                    invoked[c].primary = Attempts(cfg[c].retries)
              /\ cfg[c].primary = "plain" => invoked[c].primary = 1

C14_Linear_Step ==
    \A c \in active :
        /\ phase[c] = "fallback" =>
              /\ phase'[c] = "fallback"
              /\ invoked'[c].primary = invoked[c].primary
        /\ (phase[c] = "primary" /\ phase'[c] = "fallback") =>
              /\ pc[c] \in {"start", "inflight"}
              /\ invoked[c].fallback = 0 /\ invoked'[c].fallback = 1
        /\ pc[c] \in {"done", "failed"} => CallState(c)' = CallState(c)

C14_Linear ==
    /\ []C14_Linear_State
    /\ [][C14_Linear_Step]_vars

C14_Witness ==
    \E c \in active :
        /\ cfg[c].primary = "task" /\ cfg[c].retries = 2
        /\ cfg[c].fallback = "task" /\ cfg[c].fb_retries = 2
        /\ pc[c] = "failed" /\ phase[c] = "fallback"
        /\ caught[c].primary = "E1" /\ error[c] = "E2"

\* C15: a backoff wait happens only between two attempts.  A wait starts
\* only when an attempt has just failed and the call then sleeps; no wait
\* follows a successful attempt or the failing final attempt; so the waits
\* of a retry-wrapped operation number its invocations minus one, not
\* counting a wait that is still pending or that a cancellation cut short.
WaitOpen(c, ph) ==
    /\ phase[c] = ph
    /\ \/ pc[c] = "sleep"
       \/ /\ pc[c] = "cancelled"
          /\ invoked[c][ph] > 0
          /\ Len(outcomes[c][ph]) = invoked[c][ph]
          /\ Last(outcomes[c][ph])[2] # CancelledError

C15_WaitsBetweenAttempts_State ==
    \A c \in active, ph \in Phases :
        /\ invoked[c][ph] = 0 => delays[c][ph] = <<>>
        /\ invoked[c][ph] > 0 =>
              Len(delays[c][ph]) =
                  invoked[c][ph] - 1 + (IF WaitOpen(c, ph) THEN 1 ELSE 0)
        /\ EndsOk(outcomes[c][ph]) => ~WaitOpen(c, ph)
        /\ caught[c][ph] # NoError => ~WaitOpen(c, ph)

C15_WaitsBetweenAttempts_Step ==
    \A c \in active, ph \in Phases :
        delays'[c][ph] # delays[c][ph] =>
            /\ pc[c] = "inflight" /\ pc'[c] = "sleep"
            /\ Last(outcomes'[c][ph])[1] = "err"
            /\ Len(outcomes'[c][ph]) = invoked[c][ph]
            /\ invoked[c][ph] < RetriesOf(c, ph)

C15_WaitsBetweenAttempts ==
    /\ []C15_WaitsBetweenAttempts_State
    /\ [][C15_WaitsBetweenAttempts_Step]_vars

C15_Witness ==
    \E c \in active :
        /\ cfg[c].primary = "task" /\ cfg[c].retries = 3
        /\ pc[c] = "failed" /\ phase[c] = "primary"
        /\ invoked[c].primary = 3
        /\ Len(delays[c].primary) = 2

\* C16: concurrent calls are independent.  Under every interleaving of two
\* calls, a step changes the state of one call only, and each call's attempt
\* counter, invocation counts, fallback engagement, result and error are
\* those its own configuration and its own operations' outcomes determine:
\* its retry budget is used by its own failed attempts only and its fallback
\* is engaged by its own primary's failure only.
InFlight(c, ph) == phase[c] = ph /\ pc[c] = "inflight"

SoloShape(c) ==
    /\ \A ph \in Phases :
          /\ invoked[c][ph] =
                Len(outcomes[c][ph]) + (IF InFlight(c, ph) THEN 1 ELSE 0)
          /\ KindOf(c, ph) = "task" =>
                invoked[c][ph] <= Attempts(RetriesOf(c, ph))
          /\ (KindOf(c, ph) = "task" /\ caught[c][ph] # NoError) =>
                /\ Len(outcomes[c][ph]) = Attempts(RetriesOf(c, ph))
                /\ AllErr(outcomes[c][ph])
                /\ caught[c][ph] = Last(outcomes[c][ph])[2]
          /\ (/\ phase[c] = ph /\ KindOf(c, ph) = "task"
              /\ Len(outcomes[c][ph]) > 0
              /\ Last(outcomes[c][ph])[1] = "err"
              /\ Len(outcomes[c][ph]) < RetriesOf(c, ph)
              /\ pc[c] # "cancelled") => pc[c] \in {"sleep", "inflight"}
    /\ Started(c) =>
          attempt[c] = invoked[c][phase[c]]
                          + (IF WaitOpen(c, phase[c]) THEN 1 ELSE 0)
    /\ invoked[c].fallback > 0 <=>
          (cfg[c].fallback # "none" /\ caught[c].primary # NoError)
    /\ pc[c] = "done" <=> EndsOk(outcomes[c][phase[c]])
    /\ pc[c] = "done" => result[c] = Last(outcomes[c][phase[c]])[2]
    /\ pc[c] = "failed" <=> caught[c][phase[c]] # NoError
    /\ pc[c] = "failed" => error[c] = caught[c][phase[c]]
    /\ pc[c] = "cancelled" <=> error[c] = CancelledError
    /\ pc[c] = "cancelled" => result[c] = NoResult

C16_Independent_Step ==
    \A c1, c2 \in active :
        c1 # c2 =>
            (CallState(c1)' = CallState(c1) \/ CallState(c2)' = CallState(c2))

C16_Independent ==
    /\ [](\A c \in active : SoloShape(c))
    /\ [][C16_Independent_Step]_vars

C16_Witness ==
    /\ active = Calls
    /\ cfg["A"] = cfg["B"] /\ cfg["A"].retries = 2
    /\ cfg["A"].fallback = "plain"
    /\ pc["A"] = "done" /\ phase["A"] = "fallback"
    /\ invoked["A"].primary = 2
    /\ pc["B"] = "sleep" /\ phase["B"] = "primary"
    /\ invoked["B"].primary = 1

\* C17: the retry policy emits one log event per retry attempt: every
\* failed attempt that is retried has produced a retry event in the call's
\* log before the next attempt starts.
RetryEvents(lg) == {i \in 1 .. Len(lg) : lg[i].ev = "retry_attempt"}

C17_RetryEventPerAttempt ==
    \A c \in active :
        Cardinality(RetryEvents(log[c])) =
            Len(delays[c].primary) + Len(delays[c].fallback)

\* C18: vortex_flow logs in transition order, every event tagged with the
\* context label: primary start before primary() is invoked, then on failure
\* a failure event with the reason, then the fallback engagement before
\* fallback() is invoked, then exactly one fallback outcome event; no
\* fallback event when the primary succeeded.
FlowLogFailure(c) ==
    IF caught[c].primary = NoError THEN <<>>
    ELSE IF cfg[c].fallback = "none"
    THEN <<LogInstability(caught[c].primary), LogNoFallback>>
    ELSE <<LogInstability(caught[c].primary), LogEngaging>>

FlowLogOutcome(c) ==
    IF phase[c] = "fallback" /\ pc[c] = "done" THEN <<LogStabilized>>
    ELSE IF phase[c] = "fallback" /\ pc[c] = "failed"
    THEN <<LogFallbackFailed(caught[c].fallback)>>
    ELSE <<>>

FlowLogInOrder(c) ==
    /\ ~Started(c) => log[c] = <<>>
    /\ Started(c) =>
          log[c] = <<LogExecuting>> \o FlowLogFailure(c) \o FlowLogOutcome(c)
    /\ invoked[c].fallback > 0 =>
          (Len(log[c]) >= 3 /\ log[c][3] = LogEngaging)
    /\ EndsOk(outcomes[c].primary) => log[c] = <<LogExecuting>>

FlowLogTagged(c) == \A i \in 1 .. Len(log[c]) : log[c][i].ctx

C18_LogInOrderAndTagged ==
    \A c \in active : FlowLogInOrder(c) /\ FlowLogTagged(c)

\* C19: the retry decision depends on the attempt count only.  After a
\* failed attempt a < max_attempts the wrapper waits for attempt a+1
\* whatever the kind of the error, and the only step of a waiting call,
\* short of cancellation, is that attempt; the invocations of a finished run
\* are determined by where its first success lies, not by the error kinds.
FirstOk(outs) ==
    IF AllErr(outs) THEN 0
    ELSE CHOOSE i \in 1 .. Len(outs) :
            outs[i][1] = "ok" /\ AllErr(SubSeq(outs, 1, i - 1))

C19_RetryIgnoresErrorKind_State ==
    \A c \in active, ph \in Phases :
        KindOf(c, ph) = "task" =>
            /\ \A e \in Errors :
                  (/\ phase[c] = ph /\ pc[c] # "cancelled"
                   /\ Len(outcomes[c][ph]) = invoked[c][ph]
                   /\ invoked[c][ph] > 0
                   /\ Last(outcomes[c][ph]) = <<"err", e>>) =>
                      IF invoked[c][ph] < RetriesOf(c, ph)
                        THEN pc[c] = "sleep"
                        ELSE caught[c][ph] = e
            /\ (phase[c] = ph /\ pc[c] \in {"done", "failed"}) =>
                  invoked[c][ph] =
                      IF FirstOk(outcomes[c][ph]) # 0
                        THEN FirstOk(outcomes[c][ph])
                        ELSE Attempts(RetriesOf(c, ph))

C19_RetryIgnoresErrorKind_Step ==
    \A c \in active :
        (pc[c] = "sleep" /\ CallState(c)' # CallState(c)) =>
            \/ pc'[c] = "cancelled"
            \/ /\ pc'[c] = "inflight"
               /\ invoked'[c][phase[c]] = invoked[c][phase[c]] + 1

C19_RetryIgnoresErrorKind ==
    /\ []C19_RetryIgnoresErrorKind_State
    /\ [][C19_RetryIgnoresErrorKind_Step]_vars

C19_Witness ==
    \E c \in active :
        /\ cfg[c].primary = "task" /\ cfg[c].retries = 3
        /\ phase[c] = "primary" /\ pc[c] = "inflight"
        /\ invoked[c].primary = 3
        /\ outcomes[c].primary = << <<"err", "E1">>, <<"err", "E2">> >>

\* C20: when every invocation terminates and the task is not cancelled,
\* every call eventually reaches DONE or FAILED; a primary wrapped for N
\* attempts is invoked at most N times, a fallback wrapped for M attempts at
\* most M times, and the fallback only after the primary's last invocation.
C20_Bounded ==
    \A c \in active :
        /\ \A ph \in Phases :
              Wrapped(c, ph) => invoked[c][ph] <= RetriesOf(c, ph)
        /\ invoked[c].fallback > 0 =>
              (phase[c] = "fallback"
               /\ Len(outcomes[c].primary) = invoked[c].primary)

C20_Terminates ==
    /\ []C20_Bounded
    /\ <>(\A c \in active : pc[c] \in {"done", "failed"})

C20_Witness ==
    \E c \in active :
        /\ cfg[c].primary = "task" /\ cfg[c].retries = 3
        /\ cfg[c].fallback = "task" /\ cfg[c].fb_retries = 2
        /\ pc[c] = "failed"
        /\ invoked[c].primary = 3 /\ invoked[c].fallback = 2

=============================================================================
